---- MODULE Spec2Model ----
(***************************************************************************)
(* State-machine model of great_leader.py: the session attributes of one   *)
(* conversation (the two pick-without-replacement pools and the quiz       *)
(* state), the intent handlers that mutate them in place, and the grader   *)
(* check_answers with the difflib matching it relies on.                   *)
(*                                                                         *)
(* Text is modelled as a sequence of characters, each character a          *)
(* one-letter string; list indices keep Python's 0-based values, so the    *)
(* element with index i of a list L is L[i + 1].                           *)
(* range() is a list, as in the Python 2 the code is written for.          *)
(* An exception leaves the in-place mutations made before it.              *)
(***************************************************************************)
EXTENDS Integers, Sequences, FiniteSets, TLC

VARIABLES
    leadership_quiz,  \* the quiz catalog (list of questions), fixed after load
    leadership_tips,  \* the tip catalog (list of tips), fixed after load
    rem_quiz_ques,    \* session.attributes['rem_quiz_ques']
    rem_tips,         \* session.attributes['rem_tips']
    state,            \* session.attributes['state'], NoState while the key is absent
    result,           \* what the last handler returned or raised
    graded_call,      \* the check_answers call made by the last handler, if any
    quiz_served,      \* history: times each quiz index was served since launch
    tips_served,      \* history: times each tip index was served since launch
    submitted,        \* history: answers submitted since the last question start
    discarded,        \* history: collected answers the last handler threw away
    retries           \* history: recursive retries of the last handler's pick

vars == <<leadership_quiz, leadership_tips, rem_quiz_ques, rem_tips, state,
          result, graded_call, quiz_served, tips_served, submitted, discarded,
          retries>>

-----------------------------------------------------------------------------
(* Bounds of the model. *)

\* No handler is run that would make the collected responses longer than this.
MaxResponses == 5

\* No pick is run from a pool that has served this many picks since launch.
MaxPicks == 5

\* Longest list of submitted answers graded directly (GradeSpec).
MaxGradeLen == 3

\* Longest list of stored answers graded against directly (GradeSpec).
MaxKnown == 2

\* Depth of recursion at which the interpreter stops a computation
\* ("maximum recursion depth exceeded"), kept small.
RecursionLimit == 3

-----------------------------------------------------------------------------
(* Text. *)

W_a   == <<"a">>
W_ab  == <<"a", "b">>
W_abc == <<"a", "b", "c">>
W_cab == <<"c", "a", "b">>

\* Code point order of the characters used.
Ord(c) == CASE c = "a" -> 1 [] c = "b" -> 2 [] c = "c" -> 3 [] OTHER -> 0

Min(x, y) == IF x <= y THEN x ELSE y

\* Python's s < t on strings: first differing character decides, a proper
\* prefix is smaller.
StrLess(s, t) ==
    LET n == Min(Len(s), Len(t))
        diff == {i \in 1..n : s[i] # t[i]}
    IN  IF diff = {} THEN Len(s) < Len(t)
        ELSE LET i == CHOOSE j \in diff : \A k \in diff : j <= k
             IN  Ord(s[i]) < Ord(t[i])

\* range(n)
range(n) == [i \in 1..n |-> i - 1]

\* list.pop(i) leaves the list without its element of (0-based) index i.
ListWithout(L, i) == [j \in 1..(Len(L) - 1) |-> IF j <= i THEN L[j] ELSE L[j + 1]]

\* list.remove(x) deletes the first occurrence of x.
ListRemove(L, x) ==
    LET first == CHOOSE j \in 1..Len(L) : L[j] = x /\ \A k \in 1..(j - 1) : L[k] # x
    IN  ListWithout(L, first - 1)

-----------------------------------------------------------------------------
(* difflib.SequenceMatcher, as get_close_matches uses it (no junk; autojunk *)
(* only concerns sequences of 200 elements or more).                        *)

\* a[i:i+k] == b[j:j+k], 0-based
SameBlock(a, b, i, j, k) == \A d \in 0..(k - 1) : a[i + d + 1] = b[j + d + 1]

\* find_longest_match(alo, ahi, blo, bhi): the longest block, of those the one
\* starting earliest in a, of those the one starting earliest in b.
find_longest_match(a, b, alo, ahi, blo, bhi) ==
    LET Blocks == {<<i, j, k>> \in (alo..ahi) \X (blo..bhi) \X (0..(ahi - alo)) :
                      /\ i + k <= ahi
                      /\ j + k <= bhi
                      /\ SameBlock(a, b, i, j, k)}
        Better(x, y) == \/ x[3] > y[3]
                        \/ x[3] = y[3] /\ x[1] < y[1]
                        \/ x[3] = y[3] /\ x[1] = y[1] /\ x[2] <= y[2]
    IN  CHOOSE x \in Blocks : \A y \in Blocks : Better(x, y)

\* Total size of get_matching_blocks() restricted to a[alo:ahi], b[blo:bhi].
RECURSIVE matches(_, _, _, _, _, _)
matches(a, b, alo, ahi, blo, bhi) ==
    LET m == find_longest_match(a, b, alo, ahi, blo, bhi)
        i == m[1]
        j == m[2]
        k == m[3]
    IN  IF k = 0 THEN 0
        ELSE k + (IF alo < i /\ blo < j THEN matches(a, b, alo, i, blo, j) ELSE 0)
               + (IF i + k < ahi /\ j + k < bhi
                  THEN matches(a, b, i + k, ahi, j + k, bhi) ELSE 0)

\* ratio() = 2.0 * matches / (len(a) + len(b)), 1.0 for two empty sequences;
\* kept as the fraction <<numerator, denominator>>.
ratio(a, b) ==
    IF Len(a) + Len(b) = 0 THEN <<1, 1>>
    ELSE <<2 * matches(a, b, 0, Len(a), 0, Len(b)), Len(a) + Len(b)>>

\* ratio >= cutoff for cutoff = 0.8 = 4/5
CutoffNum == 4
CutoffDen == 5
ClearsCutoff(r) == r[1] * CutoffDen >= CutoffNum * r[2]

\* (score1, x1) > (score2, x2) as Python compares tuples
ScoredGreater(r1, x1, r2, x2) ==
    \/ r1[1] * r2[2] > r2[1] * r1[2]
    \/ r1[1] * r2[2] = r2[1] * r1[2] /\ StrLess(x2, x1)

\* The possibilities that clear the cutoff against word (seq2 = word, seq1 = x).
CloseIndices(word, possibilities) ==
    {p \in 1..Len(possibilities) : ClearsCutoff(ratio(possibilities[p], word))}

\* Variant: the close match with the smallest (score, x) pair is taken.
get_close_matches_last(word, possibilities) ==
    LET close == CloseIndices(word, possibilities)
        worst == CHOOSE p \in close : \A q \in close :
                    ~ScoredGreater(ratio(possibilities[p], word), possibilities[p],
                                   ratio(possibilities[q], word), possibilities[q])
    IN  possibilities[worst]

\* get_close_matches(word, possibilities, cutoff=0.8)[0] when there is a match:
\* the largest (score, x) pair.
get_close_matches_0(word, possibilities) ==
    LET close == CloseIndices(word, possibilities)
        best == CHOOSE p \in close : \A q \in close :
                   ~ScoredGreater(ratio(possibilities[q], word), possibilities[q],
                                  ratio(possibilities[p], word), possibilities[p])
    IN  possibilities[best]

-----------------------------------------------------------------------------
(* The loaded catalog (speech_assets/leadership_knowledge.json). *)

Question(text, type, values) ==
    [question |-> text, type |-> type,
     answers |-> [k \in 1..Len(values) |-> [value |-> values[k]]]]

\* The catalogs the model is run on: ordinary questions, a single-part question
\* that stores several answers, an entry of unknown type, questions that store
\* no answer, and an empty tip list.
Catalogs ==
    { [quiz |-> << Question("q0", "single_part", <<W_a>>),
                   Question("q1", "multi_part", <<W_a, W_ab>>) >>,
       tips |-> <<"t0", "t1">>],
      [quiz |-> << Question("q0", "single_part", <<W_ab, W_abc>>),
                   Question("q1", "multi_part", <<W_a, W_ab, W_abc>>),
                   Question("q2", "true_false", <<W_a>>) >>,
       tips |-> <<"t0">>],
      [quiz |-> << Question("q0", "multi_part", <<>>),
                   Question("q1", "single_part", <<>>) >>,
       tips |-> <<>>] }

\* The answers a user utters in the session model.
Answers == {W_a, W_ab}

\* The texts graded directly (GradeSpec).
GradeWords == {W_a, W_ab, W_abc, W_cab}

\* All lists of at most n elements of S.
SeqsUpTo(S, n) == UNION {[1..k -> S] : k \in 0..n}

-----------------------------------------------------------------------------
(* Values of the session attributes and of the handlers' results. *)

\* session.attributes has no 'state' key
NoState == [context |-> "none"]

\* Python's None, and a list, as the value of graded['missing']
None == [none |-> TRUE, list |-> <<>>]
Some(L) == [none |-> FALSE, list |-> L]

\* A rendered template or literal text, with the texts and number put into it.
Speech(template, texts, n) ==
    [template |-> template, texts |-> texts, n_missing |-> n, continued |-> FALSE]
NoSpeech == Speech("", <<>>, 0)

\* A handler's outcome: the response it returned, or the exception it raised;
\* picked is the index its pick returned (-1 when it returned none).
Returned(handler, speech, picked) ==
    [handler |-> handler, raised |-> "", speech |-> speech, picked |-> picked]
Raised(handler, exception, picked) ==
    [handler |-> handler, raised |-> exception, speech |-> NoSpeech, picked |-> picked]

NoCall == [called |-> FALSE]

\* A dict as the list of its <<key, value>> items in insertion order;
\* d[k] = v replaces the value of a key already present.
DictKeys(d) == [n \in 1..Len(d) |-> d[n][1]]
DictSet(d, k, v) ==
    IF \E n \in 1..Len(d) : d[n][1] = k
    THEN [n \in 1..Len(d) |-> IF d[n][1] = k THEN <<k, v>> ELSE d[n]]
    ELSE Append(d, <<k, v>>)

ZeroServed(catalog) == [i \in 0..(Len(catalog) - 1) |-> 0]

RECURSIVE SumOver(_, _)
SumOver(f, S) ==
    IF S = {} THEN 0
    ELSE LET x == CHOOSE y \in S : TRUE IN f[x] + SumOver(f, S \ {x})

Picks(served) == SumOver(served, DOMAIN served)

-----------------------------------------------------------------------------
(* concatenate_text_items *)

RECURSIVE concatenate_from(_, _, _)
concatenate_from(items, i, nat_list) ==
    IF i >= Len(items) THEN nat_list
    ELSE LET with_elem == nat_list \o items[i + 1]
             next == IF i < Len(items) - 2 THEN with_elem \o <<", ">>
                     ELSE IF i = Len(items) - 2 THEN with_elem \o <<", and ">>
                     ELSE with_elem
         IN  concatenate_from(items, i + 1, next)

\* Variant: every item but the last is followed by ', '.
RECURSIVE concatenate_plain(_)
concatenate_plain(items) ==
    IF Len(items) = 0 THEN <<>>
    ELSE IF Len(items) = 1 THEN items[1]
    ELSE items[1] \o <<", ">> \o concatenate_plain(Tail(items))

concatenate_text_items(items) == concatenate_from(items, 0, <<>>)

-----------------------------------------------------------------------------
(* init_session, init_quiz_state *)

init_session_quiz(quiz) == range(Len(quiz))
init_session_tips(tips) == range(Len(tips))

\* Variant: a single-part question expects as many responses as it stores.
n_responses_by_length(ques) ==
    IF ques.type \in {"single_part", "multi_part"} THEN Len(ques.answers) ELSE -1

\* Variant: a question of any other type is taken as a single_part one.
n_responses_lenient(ques) ==
    IF ques.type = "multi_part" THEN Len(ques.answers) ELSE 1

\* The n_responses init_quiz_state computes; -1 stands for the ValueError.
n_responses_of(ques) ==
    IF ques.type = "single_part" THEN 1
    ELSE IF ques.type = "multi_part" THEN Len(ques.answers)
    ELSE -1

\* Variant: the responses of the progress under way are carried over.
init_quiz_state_keeping(quiz, i_quiz) ==
    [context |-> "quiz",
     index |-> i_quiz,
     type |-> quiz[i_quiz + 1].type,
     n_responses |-> n_responses_of(quiz[i_quiz + 1]),
     responses |-> IF state.context = "quiz" THEN state.responses ELSE <<>>]

\* The 'state' attribute init_quiz_state stores.
init_quiz_state(quiz, i_quiz) ==
    [context |-> "quiz",
     index |-> i_quiz,
     type |-> quiz[i_quiz + 1].type,
     n_responses |-> n_responses_of(quiz[i_quiz + 1]),
     responses |-> <<>>]

-----------------------------------------------------------------------------
(* get_tip_from_sess, get_quiz_ques_from_sess *)

\* Variant: the picked index stays in the pool.
get_from_sess_keeping(pool, n) ==
    IF n = 0
    THEN {[raised |-> "RuntimeError", value |-> -1, pool |-> range(n),
           retries |-> RecursionLimit]}
    ELSE LET from == IF Len(pool) > 0 THEN pool ELSE range(n)
         IN  {[raised |-> "", value |-> from[i + 1], pool |-> from,
               retries |-> IF Len(pool) > 0 THEN 0 ELSE 1] :
                 i \in 0..(Len(from) - 1)}

\* Variant: the pool is refilled when it holds one index or none.
get_from_sess_early(pool, n) ==
    IF n = 0
    THEN {[raised |-> "RuntimeError", value |-> -1, pool |-> range(n),
           retries |-> RecursionLimit]}
    ELSE LET from == IF Len(pool) > 1 THEN pool ELSE range(n)
         IN  {[raised |-> "", value |-> from[i + 1], pool |-> ListWithout(from, i),
               retries |-> IF Len(pool) > 1 THEN 0 ELSE 1] :
                 i \in 0..(Len(from) - 1)}

\* Variant: the refill is lost (stored under another key), so the retry finds
\* the pool as empty as before.
get_from_sess_unfilled(pool, n, depth) ==
    IF Len(pool) > 0
    THEN {[raised |-> "", value |-> pool[i + 1], pool |-> ListWithout(pool, i),
           retries |-> depth] : i \in 0..(Len(pool) - 1)}
    ELSE {[raised |-> "RuntimeError", value |-> -1, pool |-> pool,
           retries |-> RecursionLimit]}

\* The outcomes of a pick from pool over a catalog of n items, made at the given
\* depth of recursion: randint raises ValueError on the empty pool, which is
\* then refilled and the pick retried by a recursive call; the code puts no
\* limit on the retries, the interpreter's recursion limit does (its
\* RuntimeError is not a ValueError and ends the pick).
RECURSIVE get_from_sess_at(_, _, _)
get_from_sess_at(pool, n, depth) ==
    IF Len(pool) > 0
    THEN {[raised |-> "", value |-> pool[i + 1], pool |-> ListWithout(pool, i),
           retries |-> depth] : i \in 0..(Len(pool) - 1)}
    ELSE IF depth >= RecursionLimit
         THEN {[raised |-> "RuntimeError", value |-> -1, pool |-> range(n),
                retries |-> depth]}
         ELSE get_from_sess_at(range(n), n, depth + 1)

\* get_tip_from_sess(session), get_quiz_ques_from_sess(session)
get_from_sess(pool, n) == get_from_sess_at(pool, n, 0)

CountPick(served, o) ==
    IF o.raised = "" THEN [served EXCEPT ![o.value] = @ + 1] ELSE served

-----------------------------------------------------------------------------
(* check_answers *)

\* Variant: the matched answer stays among the known answers.
remove_match_never(known_answers, match) == known_answers

\* known_answers after the matched answer is removed from it
remove_match(known_answers, match) == ListRemove(known_answers, match)

\* Variant: all_correct also requires that no known answer is left.
check_result_strict(known_answers, correct, incorrect, all_correct) ==
    [all_correct |-> all_correct /\ Len(known_answers) = 0,
     graded |-> [correct |-> correct,
                 incorrect |-> incorrect,
                 missing |-> IF Len(known_answers) > 0
                             THEN Some(known_answers) ELSE None]]

\* What check_answers returns once the loop is over.
check_result(known_answers, correct, incorrect, all_correct) ==
    [all_correct |-> all_correct,
     graded |-> [correct |-> correct,
                 incorrect |-> incorrect,
                 missing |-> IF Len(known_answers) > 0
                             THEN Some(known_answers) ELSE None]]

\* The loop over the responses from (1-based) position k on.
RECURSIVE check_loop(_, _, _, _, _, _)
check_loop(response, k, known_answers, correct, incorrect, all_correct) ==
    IF k > Len(response)
    THEN check_result(known_answers, correct, incorrect, all_correct)
    ELSE LET resp == response[k]
         IN  IF CloseIndices(resp, known_answers) # {}
             THEN LET match == get_close_matches_0(resp, known_answers)
                  IN  check_loop(response, k + 1,
                                 remove_match(known_answers, match),
                                 DictSet(correct, resp, match),
                                 incorrect, all_correct)
             ELSE check_loop(response, k + 1, known_answers, correct,
                             Append(incorrect, resp), FALSE)

\* known_answers = [elem['value'] for elem in leadership_quiz[i_quiz]['answers']]
known_answers_of(quiz, i_quiz) ==
    [k \in 1..Len(quiz[i_quiz + 1].answers) |-> quiz[i_quiz + 1].answers[k].value]

\* check_answers(session): (all_correct, graded)
check_answers(quiz, st) ==
    check_loop(st.responses, 1, known_answers_of(quiz, st.index), <<>>, <<>>, TRUE)

\* The record kept of a check_answers call.
Call(quiz, st) ==
    LET checked == check_answers(quiz, st)
    IN  [called |-> TRUE,
         response |-> st.responses,
         known_answers |-> known_answers_of(quiz, st.index),
         all_correct |-> checked.all_correct,
         graded |-> checked.graded]

\* Variant: known_answers is the catalog's own list of answers, reduced to
\* their values, so that removing a match removes it from the catalog.
catalog_after_check_aliased(quiz, st) ==
    LET missing == check_answers(quiz, st).graded.missing
        left == IF missing.none THEN <<>> ELSE missing.list
    IN  [quiz EXCEPT ![st.index + 1].answers =
                        [k \in 1..Len(left) |-> [value |-> left[k]]]]

\* leadership_quiz once check_answers has returned: known_answers is a list of
\* its own, so the removals leave the catalog as it was.
catalog_after_check(quiz, st) == quiz

-----------------------------------------------------------------------------
(* process_answers, prompt_user_for_more_answers *)

\* Variant: the single-correction sentence is used only when exactly one answer
\* is incorrect and exactly one is missing.
process_answers_paired(quiz, st) ==
    LET checked == check_answers(quiz, st)
        graded == checked.graded
    IN  IF checked.all_correct
        THEN [raised |-> "", speech |-> Speech("Great job! That is correct.", <<>>, 0)]
        ELSE IF Len(graded.incorrect) = 1 /\ Len(graded.missing.list) = 1
             THEN [raised |-> "",
                   speech |-> Speech("incorrect_answer",
                                     <<graded.incorrect[1], graded.missing.list[1]>>, 0)]
             ELSE [raised |-> "",
                   speech |-> Speech("incorrect_answers",
                                     <<concatenate_text_items(graded.incorrect),
                                       concatenate_text_items(DictKeys(graded.correct))>>, 0)]

\* process_answers(session): the speech, or the exception of graded['missing'][0]
\* when graded['missing'] is None.
process_answers(quiz, st) ==
    LET checked == check_answers(quiz, st)
        graded == checked.graded
    IN  IF checked.all_correct
        THEN [raised |-> "", speech |-> Speech("Great job! That is correct.", <<>>, 0)]
        ELSE IF Len(graded.incorrect) = 1
             THEN IF graded.missing.none
                  THEN [raised |-> "TypeError", speech |-> NoSpeech]
                  ELSE [raised |-> "",
                        speech |-> Speech("incorrect_answer",
                                          <<graded.incorrect[1], graded.missing.list[1]>>, 0)]
             ELSE [raised |-> "",
                   speech |-> Speech("incorrect_answers",
                                     <<concatenate_text_items(graded.incorrect),
                                       concatenate_text_items(DictKeys(graded.correct))>>, 0)]

\* prompt_user_for_more_answers(session): speech stays unbound when n_missing < 1.
prompt_user_for_more_answers(st) ==
    LET n_missing == st.n_responses - Len(st.responses)
    IN  IF n_missing = 1
        THEN [raised |-> "", speech |-> Speech("need_one_more_answer", <<>>, 0)]
        ELSE IF n_missing > 1
             THEN [raised |-> "", speech |-> Speech("need_more_answers", <<>>, n_missing)]
             ELSE [raised |-> "UnboundLocalError", speech |-> NoSpeech]

-----------------------------------------------------------------------------
(* manage_quiz_state *)

\* Variant: the new answers replace the responses.
extend_replacing(responses, answers) == answers

\* state['responses'].extend(answers)
extend(responses, answers) == responses \o answers

\* Variant: the answers are also checked when more than n_responses are held.
has_all_answers_lenient(st) == Len(st.responses) >= st.n_responses

\* len(state['responses']) == state['n_responses']
has_all_answers(st) == Len(st.responses) = st.n_responses

\* speech_output += " " + render_template('continue')
with_continue(out) ==
    IF out.raised = "" THEN [out EXCEPT !.speech.continued = TRUE] ELSE out

\* Number of answers held by the quiz progress, if there is one.
Collected(st) == IF st.context = "quiz" THEN Len(st.responses) ELSE 0

\* manage_quiz_state(answers), called by the handler named handler
manage_quiz_state(handler, answers) ==
    /\ UNCHANGED <<leadership_tips, rem_quiz_ques, rem_tips, quiz_served, tips_served>>
    /\ discarded' = 0
    /\ retries' = 0
    /\ IF state.context # "quiz"
       THEN \* state = session.attributes['state'] or state['responses'] raises
            /\ result' = Raised(handler, "KeyError", -1)
            /\ graded_call' = NoCall
            /\ UNCHANGED <<leadership_quiz, state, submitted>>
       ELSE /\ Len(state.responses) + Len(answers) <= MaxResponses
            /\ state' = [state EXCEPT !.responses = extend(@, answers)]
            /\ submitted' = submitted \o answers
            /\ IF has_all_answers(state')
               THEN LET out == with_continue(process_answers(leadership_quiz, state'))
                    IN  /\ graded_call' = Call(leadership_quiz, state')
                        /\ leadership_quiz' = catalog_after_check(leadership_quiz, state')
                        /\ result' = [handler |-> handler, raised |-> out.raised,
                                      speech |-> out.speech, picked |-> -1]
               ELSE LET out == prompt_user_for_more_answers(state')
                    IN  /\ graded_call' = NoCall
                        /\ UNCHANGED leadership_quiz
                        /\ result' = [handler |-> handler, raised |-> out.raised,
                                      speech |-> out.speech, picked |-> -1]

-----------------------------------------------------------------------------
(* The handlers. *)

launch ==
    /\ rem_quiz_ques' = init_session_quiz(leadership_quiz)
    /\ rem_tips' = init_session_tips(leadership_tips)
    /\ result' = Returned("launch",
                          Speech("Do you want a leadership tip or to play the quiz?",
                                 <<>>, 0), -1)
    /\ graded_call' = NoCall
    /\ quiz_served' = ZeroServed(leadership_quiz)
    /\ tips_served' = ZeroServed(leadership_tips)
    /\ discarded' = 0
    /\ retries' = 0
    /\ UNCHANGED <<leadership_quiz, leadership_tips, state, submitted>>

\* Variant: get_new_tip leaves the 'state' attribute as it is.
tip_state_keeping == state

\* session.attributes['state'] = {'context':'tip'}
tip_state == [context |-> "tip"]

get_new_tip ==
    /\ Picks(tips_served) < MaxPicks
    /\ state' = tip_state
    /\ \E o \in get_from_sess(rem_tips, Len(leadership_tips)) :
          /\ rem_tips' = o.pool
          /\ retries' = o.retries
          /\ tips_served' = CountPick(tips_served, o)
          /\ result' = IF o.raised # ""
                       THEN Raised("get_new_tip", o.raised, -1)
                       ELSE Returned("get_new_tip",
                                     Speech("tip", <<<<leadership_tips[o.value + 1]>>>>, 0),
                                     o.value)
    /\ graded_call' = NoCall
    /\ submitted' = <<>>
    /\ discarded' = Collected(state)
    /\ UNCHANGED <<leadership_quiz, leadership_tips, rem_quiz_ques, quiz_served>>

play_quiz ==
    /\ Picks(quiz_served) < MaxPicks
    /\ \E o \in get_from_sess(rem_quiz_ques, Len(leadership_quiz)) :
          /\ rem_quiz_ques' = o.pool
          /\ retries' = o.retries
          /\ quiz_served' = CountPick(quiz_served, o)
          /\ IF o.raised # ""
             THEN /\ result' = Raised("play_quiz", o.raised, -1)
                  /\ discarded' = 0
                  /\ UNCHANGED <<state, submitted>>
             ELSE IF n_responses_of(leadership_quiz[o.value + 1]) < 0
                  THEN /\ result' = Raised("play_quiz", "ValueError", o.value)
                       /\ discarded' = 0
                       /\ UNCHANGED <<state, submitted>>
                  ELSE /\ state' = init_quiz_state(leadership_quiz, o.value)
                       /\ submitted' = <<>>
                       /\ discarded' = Collected(state)
                       /\ result' = Returned("play_quiz",
                                             Speech("question",
                                                    <<<<leadership_quiz[o.value + 1].question>>>>,
                                                    0),
                                             o.value)
    /\ graded_call' = NoCall
    /\ UNCHANGED <<leadership_quiz, leadership_tips, rem_tips, tips_served>>

single_answer ==
    \E answer \in Answers : manage_quiz_state("single_answer", <<answer>>)

two_answer ==
    \E answer_one, answer_two \in Answers :
        manage_quiz_state("two_answer", <<answer_one, answer_two>>)

five_answer ==
    \E answers \in [1..5 -> Answers] : manage_quiz_state("five_answer", answers)

\* manage_quiz_state([]): a turn that submits no answer
no_answer == manage_quiz_state("no_answer", <<>>)

-----------------------------------------------------------------------------
(* The session: the catalog is loaded, then the session is launched. *)

Init ==
    \E catalog \in Catalogs :
        /\ leadership_quiz = catalog.quiz
        /\ leadership_tips = catalog.tips
        /\ rem_quiz_ques = init_session_quiz(catalog.quiz)
        /\ rem_tips = init_session_tips(catalog.tips)
        /\ state = NoState
        /\ result = Returned("launch",
                             Speech("Do you want a leadership tip or to play the quiz?",
                                    <<>>, 0), -1)
        /\ graded_call = NoCall
        /\ quiz_served = ZeroServed(catalog.quiz)
        /\ tips_served = ZeroServed(catalog.tips)
        /\ submitted = <<>>
        /\ discarded = 0
        /\ retries = 0

Next ==
    \/ launch
    \/ get_new_tip
    \/ play_quiz
    \/ single_answer
    \/ two_answer
    \/ five_answer
    \/ no_answer

Spec == Init /\ [][Next]_vars

-----------------------------------------------------------------------------
(* The grader on its own: check_answers and process_answers applied to a    *)
(* session whose quiz state holds any list of responses, for a question     *)
(* that stores any list of answers.                                         *)

GradeInit ==
    \E known \in SeqsUpTo(GradeWords, MaxKnown),
       response \in SeqsUpTo(GradeWords, MaxGradeLen) :
        /\ leadership_quiz = <<Question("q0", "multi_part", known)>>
        /\ leadership_tips = <<"t0">>
        /\ rem_quiz_ques = <<>>
        /\ rem_tips = init_session_tips(<<"t0">>)
        /\ state = [init_quiz_state(<<Question("q0", "multi_part", known)>>, 0)
                       EXCEPT !.responses = response]
        /\ result = Returned("play_quiz", Speech("question", <<<<"q0">>>>, 0), 0)
        /\ graded_call = NoCall
        /\ quiz_served = [i \in {0} |-> 1]
        /\ tips_served = ZeroServed(<<"t0">>)
        /\ submitted = response
        /\ discarded = 0
        /\ retries = 0

\* process_answers(session) on the session as it stands, once
grade ==
    /\ ~graded_call.called
    /\ graded_call' = Call(leadership_quiz, state)
    /\ leadership_quiz' = catalog_after_check(leadership_quiz, state)
    /\ result' = LET out == process_answers(leadership_quiz, state)
                 IN  [handler |-> "process_answers", raised |-> out.raised,
                      speech |-> out.speech, picked |-> -1]
    /\ UNCHANGED <<leadership_tips, rem_quiz_ques, rem_tips, state,
                   quiz_served, tips_served, submitted, discarded, retries>>

GradeNext == grade

GradeSpec == GradeInit /\ [][GradeNext]_vars

-----------------------------------------------------------------------------
(* Properties of the session. *)

SubmitHandlers == {"single_answer", "two_answer", "five_answer", "no_answer"}

\* The last handler was manage_quiz_state run on an active quiz.
SubmittedToQuiz == state.context = "quiz" /\ result.handler \in SubmitHandlers

\* The elements of a list.
Elems(L) == {L[k] : k \in 1..Len(L)}

\* The active question stores at least one answer.
ActiveStoresAnswer ==
    state.context = "quiz" /\ Len(leadership_quiz[state.index + 1].answers) >= 1

\* C1: while a quiz is active (here: on a question that stores an answer) the
\* number of collected answers never exceeds n_responses, and a
\* manage_quiz_state call grades exactly when the collected count equals
\* n_responses after the append.
C1_CollectedWithinExpected ==
    ActiveStoresAnswer =>
        /\ Len(state.responses) <= state.n_responses
        /\ result.handler \in SubmitHandlers =>
              (graded_call.called <=> Len(state.responses) = state.n_responses)

\* C2: for a catalog of N >= 1 items, the first N picks from a pool since launch
\* are pairwise distinct, pick N + 1 is the first repeat, and no index is served
\* a (k+1)-th time before every index has been served k times.
C2_NoRepeatBeforeAllServed ==
    \A served \in {quiz_served, tips_served} :
        LET N == Cardinality(DOMAIN served)
        IN  N >= 1 =>
               /\ \A i, j \in DOMAIN served : served[i] <= served[j] + 1
               /\ Picks(served) <= N => \A i \in DOMAIN served : served[i] <= 1
               /\ Picks(served) = N + 1 =>
                     Cardinality({i \in DOMAIN served : served[i] = 2}) = 1

\* C2 witness: a pool of three items has served its fourth pick.
C2_Witness == Len(leadership_quiz) = 3 /\ Picks(quiz_served) = 4

\* A pool holds distinct indices of its catalog.
PoolWithinCatalog(pool, n) ==
    /\ Elems(pool) \subseteq 0..(n - 1)
    /\ Cardinality(Elems(pool)) = Len(pool)
    /\ Len(pool) <= n

\* A step (pool, after) of a handler other than launch that puts indices into
\* the pool found it empty, and refilled it whole before popping one index.
RefillsOnlyEmpty(pool, after, n) ==
    Elems(after) \ Elems(pool) # {} => Len(pool) = 0 /\ Len(after) = n - 1

\* C3: each pool always holds distinct indices of [0, catalog size), and no pick
\* refills a pool that still has entries: outside launch a pool gains indices
\* only in a pick that found it empty, which resets it to the full range.
C3_PoolsWithinCatalog ==
    /\ [](/\ PoolWithinCatalog(rem_quiz_ques, Len(leadership_quiz))
          /\ PoolWithinCatalog(rem_tips, Len(leadership_tips)))
    /\ [][result'.handler # "launch" =>
             /\ RefillsOnlyEmpty(rem_quiz_ques, rem_quiz_ques', Len(leadership_quiz))
             /\ RefillsOnlyEmpty(rem_tips, rem_tips', Len(leadership_tips))]_vars

\* C3 witness: the pool of two tips was exhausted and refilled by the third pick.
C3_Witness ==
    Len(leadership_tips) = 2 /\ Picks(tips_served) = 3 /\ Len(rem_tips) = 1

\* C4: for a multi-part question with k answers the responses are the answers
\* submitted since the question started, in order; below k a submission is
\* answered by a prompt and grades nothing, and the submission that makes the
\* count exactly k grades all of them against the question's stored answers.
C4_MultiPartAccumulates ==
    (SubmittedToQuiz /\ state.type = "multi_part") =>
        /\ state.responses = submitted
        /\ Len(state.responses) < state.n_responses =>
              /\ ~graded_call.called
              /\ result.raised = ""
              /\ result.speech.template \in {"need_one_more_answer", "need_more_answers"}
        /\ Len(state.responses) = state.n_responses =>
              /\ graded_call.called
              /\ graded_call.response = submitted
              /\ graded_call.known_answers =
                    known_answers_of(leadership_quiz, state.index)

\* C4 witness: three answers given over two turns (one, then two) were graded.
C4_Witness ==
    /\ SubmittedToQuiz
    /\ state.type = "multi_part"
    /\ state.n_responses = 3
    /\ result.handler = "two_answer"
    /\ graded_call.called
    /\ Len(submitted) = 3

\* C5: a manage_quiz_state call on an active quiz (here: on a question that
\* stores an answer) that grades nothing returns, without an exception, the
\* prompt for n_responses - len(responses) >= 1 more answers:
\* need_one_more_answer for 1, need_more_answers with the number above.
C5_PromptForMissing ==
    (SubmittedToQuiz /\ ActiveStoresAnswer /\ ~graded_call.called) =>
        LET n_missing == state.n_responses - Len(state.responses)
        IN  /\ result.raised = ""
            /\ n_missing >= 1
            /\ n_missing = 1 => result.speech.template = "need_one_more_answer"
            /\ n_missing > 1 => /\ result.speech.template = "need_more_answers"
                                /\ result.speech.n_missing = n_missing

-----------------------------------------------------------------------------
(* Properties of the grader. *)

\* Number of positions of list L that hold x.
Count(L, x) == Cardinality({k \in 1..Len(L) : L[k] = x})

\* C6 as claimed: all_correct is true exactly when no response is incorrect and
\* no known answer is missing.
C6_AllCorrectIffNoneIncorrectOrMissing ==
    graded_call.called =>
        (graded_call.all_correct <=>
            (Len(graded_call.graded.incorrect) = 0 /\ graded_call.graded.missing.none))

\* C6 as amended: all_correct is true exactly when no response is incorrect,
\* whether or not a known answer is missing: no response against a non-empty
\* answer list, or one matching response against several stored answers, gives
\* all_correct = TRUE with the unmatched answers in missing.
C6_AllCorrectIffNoneIncorrect ==
    graded_call.called =>
        LET response == graded_call.response
            known == graded_call.known_answers
            graded == graded_call.graded
        IN  /\ graded_call.all_correct <=> Len(graded.incorrect) = 0
            /\ (Len(response) = 0 /\ Len(known) > 0) =>
                  /\ graded_call.all_correct
                  /\ graded.missing = Some(known)
            /\ (Len(response) = 1 /\ Len(graded.incorrect) = 0 /\ Len(known) > 1) =>
                  /\ graded_call.all_correct
                  /\ ~graded.missing.none
                  /\ Len(graded.missing.list) = Len(known) - 1

\* C6 witness: one matching response graded against two stored answers.
C6_Witness ==
    /\ graded_call.called
    /\ Len(graded_call.response) = 1
    /\ Len(graded_call.known_answers) = 2
    /\ graded_call.all_correct
    /\ ~graded_call.graded.missing.none

\* C7: grading consumes known answers one-to-one: every response that is not
\* recorded incorrect took one known answer out of the pool, a text is matched
\* no more often than there are known answers close to it, and 'a', 'a' against
\* the single answer 'a' gives incorrect = ['a'], nothing missing, not all correct.
C7_OneToOneConsumption ==
    graded_call.called =>
        LET response == graded_call.response
            known == graded_call.known_answers
            graded == graded_call.graded
        IN  /\ Len(response) - Len(graded.incorrect) + Len(graded.missing.list)
                  = Len(known)
            /\ \A s \in Elems(response) :
                  Count(response, s) - Count(graded.incorrect, s)
                      <= Cardinality(CloseIndices(s, known))
            /\ (response = <<W_a, W_a>> /\ known = <<W_a>>) =>
                  /\ graded.incorrect = <<W_a>>
                  /\ graded.missing = None
                  /\ ~graded_call.all_correct

\* C7 witness: 'a', 'a' was graded against the single answer 'a'.
C7_Witness ==
    /\ graded_call.called
    /\ graded_call.response = <<W_a, W_a>>
    /\ graded_call.known_answers = <<W_a>>

\* C8: when the responses are exactly the distinct known answers, in any order,
\* grading gives all_correct, maps every response to itself, and leaves nothing
\* incorrect or missing.
C8_ExactAnswersAllCorrect ==
    LET response == graded_call.response
        known == graded_call.known_answers
        graded == graded_call.graded
    IN  (/\ graded_call.called
         /\ Cardinality(Elems(known)) = Len(known)
         /\ Len(response) = Len(known)
         /\ Elems(response) = Elems(known)) =>
            /\ graded_call.all_correct
            /\ graded.correct = [k \in 1..Len(response) |-> <<response[k], response[k]>>]
            /\ graded.incorrect = <<>>
            /\ graded.missing = None

\* C8 witness: the two answers 'ab', 'abc', close to each other, were given in
\* the reverse of the stored order.
C8_Witness ==
    /\ graded_call.called
    /\ graded_call.known_answers = <<W_ab, W_abc>>
    /\ graded_call.response = <<W_abc, W_ab>>

-----------------------------------------------------------------------------
(* Properties of starting a question. *)

\* The last handler was play_quiz and it returned the question.
QuizStarted == result.handler = "play_quiz" /\ result.raised = ""

\* C9: while a quiz is active, n_responses is 1 for a single-part question
\* (however many answers it stores) and the number of stored answers for a
\* multi-part one, and type and index are those of the question most recently
\* started: set by the play_quiz that returned it, kept by every other handler.
C9_ExpectedCountByKind ==
    /\ [](state.context = "quiz" =>
             LET ques == leadership_quiz[state.index + 1]
             IN  /\ state.type = ques.type
                 /\ ques.type = "single_part" => state.n_responses = 1
                 /\ ques.type = "multi_part" => state.n_responses = Len(ques.answers))
    /\ [][state'.context = "quiz" =>
             IF QuizStarted'
             THEN state'.index = result'.picked
             ELSE /\ state.context = "quiz"
                  /\ state'.index = state.index
                  /\ state'.type = state.type
                  /\ state'.n_responses = state.n_responses]_vars

\* C9 witness: answers were submitted to a single-part question that stores
\* two answers.
C9_Witness ==
    /\ SubmittedToQuiz
    /\ state.type = "single_part"
    /\ Len(leadership_quiz[state.index + 1].answers) = 2
    /\ Len(state.responses) >= 1

\* C10: a play_quiz that returns a question replaces the quiz progress whatever
\* it was: no response is left and index, type and n_responses are those of the
\* new question; so what is graded is always what was submitted since the last
\* start, against the answers of the question then started.
C10_StartReplacesProgress ==
    /\ [][QuizStarted' =>
             LET ques == leadership_quiz[result'.picked + 1]
             IN  state' = [context |-> "quiz",
                           index |-> result'.picked,
                           type |-> ques.type,
                           n_responses |-> IF ques.type = "single_part" THEN 1
                                           ELSE Len(ques.answers),
                           responses |-> <<>>]]_vars
    /\ [](graded_call.called =>
             /\ graded_call.response = submitted
             /\ graded_call.known_answers =
                   known_answers_of(leadership_quiz, state.index))

\* C10 witness: a question was started over progress that held answers.
C10_Witness == QuizStarted /\ discarded > 0 /\ state.responses = <<>>

-----------------------------------------------------------------------------
(* Properties of the composed speech. *)

\* The last step was process_answers applied on its own.
Composed == graded_call.called /\ result.handler = "process_answers"

\* Items in order, ', and ' before the last one and ', ' between the others.
RECURSIVE NaturalJoin(_)
NaturalJoin(items) ==
    IF Len(items) = 0 THEN <<>>
    ELSE IF Len(items) = 1 THEN items[1]
    ELSE IF Len(items) = 2 THEN items[1] \o <<", and ">> \o items[2]
    ELSE items[1] \o <<", ">> \o NaturalJoin(Tail(items))

C12_NaturalJoin ==
    (Composed /\ result.speech.template = "incorrect_answers") =>
        LET wrong == graded_call.graded.incorrect
            right == DictKeys(graded_call.graded.correct)
            joined == result.speech.texts
        IN  /\ joined[1] = NaturalJoin(wrong)
            /\ joined[2] = NaturalJoin(right)
            /\ Len(right) = 1 => joined[2] = right[1]
            /\ Len(wrong) = 2 => joined[1] = wrong[1] \o <<", and ">> \o wrong[2]
            /\ Len(wrong) = 3 =>
                  joined[1] = wrong[1] \o <<", ">> \o wrong[2] \o <<", and ">> \o wrong[3]

\* C12 witness: three incorrect responses were joined.
C12_Witness ==
    /\ Composed
    /\ result.speech.template = "incorrect_answers"
    /\ Len(graded_call.graded.incorrect) = 3

-----------------------------------------------------------------------------
(* Properties of the failures of play_quiz and of the picks (Spec) *)

UnknownType(ques) == ques.type \notin {"single_part", "multi_part"}

\* The handlers that pick an index from a pool.
PickHandlers == {"get_new_tip", "play_quiz"}

\* C13: starting a question whose type is neither single_part nor multi_part
\* fails with the ValueError "Unknown question type", and the session never
\* awaits answers for such a question.
C13_UnknownTypeRaises ==
    /\ (/\ result.handler = "play_quiz"
        /\ result.picked >= 0
        /\ UnknownType(leadership_quiz[result.picked + 1])) =>
          /\ result.raised = "ValueError"
          /\ ~(state.context = "quiz" /\ state.index = result.picked)
    /\ state.context = "quiz" => ~UnknownType(leadership_quiz[state.index + 1])

\* C13 witness: play_quiz picked the question of unknown type while the answers
\* of another question were awaited.
C13_Witness ==
    /\ result.handler = "play_quiz"
    /\ result.raised = "ValueError"
    /\ UnknownType(leadership_quiz[result.picked + 1])
    /\ state.context = "quiz"

\* C14 as claimed: a pick over a catalog of size 0 fails by itself, without
\* retrying until the interpreter stops it.
C14_EmptyCatalogFailsAtOnce ==
    /\ (result.handler = "get_new_tip" /\ Len(leadership_tips) = 0) =>
          (result.raised # "" /\ retries < RecursionLimit)
    /\ (result.handler = "play_quiz" /\ Len(leadership_quiz) = 0) =>
          (result.raised # "" /\ retries < RecursionLimit)

\* C15: over a catalog of size N >= 1 every pick returns an index in 0..N-1;
\* a pick on a non-empty pool takes the index from the pool without a refill,
\* a pick on an empty pool refills once (one retry) and takes the index from
\* the refilled pool.
C15_PickTerminatesInRange ==
    [][/\ (result'.handler = "get_new_tip" /\ Len(leadership_tips) >= 1) =>
            LET from == IF Len(rem_tips) > 0 THEN rem_tips
                        ELSE range(Len(leadership_tips))
            IN  /\ result'.raised = ""
                /\ result'.picked \in 0..(Len(leadership_tips) - 1)
                /\ retries' = IF Len(rem_tips) > 0 THEN 0 ELSE 1
                /\ result'.picked \in Elems(from)
                /\ rem_tips' = ListRemove(from, result'.picked)
       /\ (result'.handler = "play_quiz" /\ Len(leadership_quiz) >= 1) =>
            LET from == IF Len(rem_quiz_ques) > 0 THEN rem_quiz_ques
                        ELSE range(Len(leadership_quiz))
            IN  /\ result'.raised \in {"", "ValueError"}
                /\ result'.picked \in 0..(Len(leadership_quiz) - 1)
                /\ retries' = IF Len(rem_quiz_ques) > 0 THEN 0 ELSE 1
                /\ result'.picked \in Elems(from)
                /\ rem_quiz_ques' = ListRemove(from, result'.picked)
      ]_vars

\* C15 witness: a pick found the pool empty, refilled it and returned an index.
C15_Witness ==
    /\ result.handler \in PickHandlers
    /\ retries = 1
    /\ result.picked >= 0
    /\ Len(leadership_quiz) >= 1
    /\ Len(leadership_tips) >= 1

-----------------------------------------------------------------------------
(* Properties of the grading as an operation on the session (GradeSpec) *)

-----------------------------------------------------------------------------
(* Properties of the reports of the gradings that the handlers trigger (Spec) *)

\* Number of known answers a report lists as missing.
MissingCount(graded) == IF graded.missing.none THEN 0 ELSE Len(graded.missing.list)

\* C17: when manage_quiz_state checks the answers of a question that stores at
\* least one answer and exactly one response is incorrect, the report lists a
\* missing answer, so the single-correction sentence is composed (no error);
\* for a multi-part question exactly one answer is missing.
C17_OneIncorrectHasMissing ==
    (/\ graded_call.called
     /\ result.handler \in SubmitHandlers
     /\ Len(graded_call.known_answers) >= 1
     /\ Len(graded_call.graded.incorrect) = 1) =>
        /\ MissingCount(graded_call.graded) >= 1
        /\ result.raised = ""
        /\ result.speech.template = "incorrect_answer"
        /\ result.speech.texts = <<graded_call.graded.incorrect[1],
                                   graded_call.graded.missing.list[1]>>
        /\ state.type = "multi_part" => MissingCount(graded_call.graded) = 1

\* C17 witness: a multi-part question storing two answers was graded with one
\* response matched and one incorrect.
C17_Witness ==
    /\ graded_call.called
    /\ result.handler \in SubmitHandlers
    /\ state.type = "multi_part"
    /\ Len(graded_call.known_answers) = 2
    /\ Len(graded_call.graded.incorrect) = 1
    /\ Len(graded_call.graded.correct) = 1

\* C18 as claimed (for stored answers of distinct texts): every report accounts
\* for each answer once: each response is a key of correct or an entry of
\* incorrect, each known answer is a value of correct or listed as missing, and
\* the entries of correct and the missing answers together are as many as the
\* known answers.
C18_EachAnswerOnce ==
    (/\ Composed
     /\ Cardinality(Elems(graded_call.known_answers)) =
           Len(graded_call.known_answers)) =>
        LET graded == graded_call.graded
            keys == Elems(DictKeys(graded.correct))
            values == {graded.correct[k][2] : k \in 1..Len(graded.correct)}
            missing == IF graded.missing.none THEN {} ELSE Elems(graded.missing.list)
        IN  /\ \A r \in Elems(graded_call.response) :
                  (r \in keys) \/ (r \in Elems(graded.incorrect))
            /\ \A a \in Elems(graded_call.known_answers) :
                  (a \in values) # (a \in missing)
            /\ Len(graded.correct) + MissingCount(graded) =
                  Len(graded_call.known_answers)

\* C19 as claimed: when play_quiz fails on a question of unknown type, the
\* session is as it was before the call: 'state' and both pools are unchanged
\* and the picked index is still in rem_quiz_ques.
C19_FailedStartRestoresSession ==
    [][(result'.handler = "play_quiz" /\ result'.raised = "ValueError") =>
          /\ state' = state
          /\ rem_tips' = rem_tips
          /\ rem_quiz_ques' = rem_quiz_ques
          /\ result'.picked \in Elems(rem_quiz_ques')
      ]_vars

\* C20: there is quiz progress only while the context is quiz. The session
\* starts without a 'state' attribute, every get_new_tip leaves a 'state' that
\* holds the context alone (no responses, no n_responses), and
\* manage_quiz_state called without quiz progress fails with a KeyError,
\* checks no answers and leaves 'state', both pools and the catalog unchanged.
C20_NoProgressOutsideQuiz ==
    /\ state = NoState
    /\ [](state.context # "quiz" => DOMAIN state = {"context"})
    /\ [][result'.handler = "get_new_tip" => state' = [context |-> "tip"]]_vars
    /\ [][(result'.handler \in SubmitHandlers /\ state.context # "quiz") =>
             /\ result'.raised = "KeyError"
             /\ ~graded_call'.called
             /\ state' = state
             /\ rem_quiz_ques' = rem_quiz_ques
             /\ rem_tips' = rem_tips
             /\ leadership_quiz' = leadership_quiz
         ]_vars

\* C20 witness: answers were submitted after a tip that ended a quiz in
\* progress.
C20_Witness ==
    /\ result.handler \in SubmitHandlers
    /\ result.raised = "KeyError"
    /\ state = [context |-> "tip"]
    /\ Picks(quiz_served) >= 1

====
